---- MODULE Spec2Model ----
(***************************************************************************)
(* Model of src/src/linear_programming.py: main() runs                     *)
(* factory_product_problem() and then advertising_campaign_problem().      *)
(* Each function builds an integer program with the PuLP modelling calls,  *)
(* writes it to an .lp file, solves it and prints the status, the value of *)
(* every variable and the value of the objective.                          *)
(*                                                                         *)
(* The solver behind prob.solve() is an external program.  It is modelled  *)
(* by its contract: it examines the integer points of the box given by     *)
(* the variables' bounds, keeps a best feasible point, and may keep either *)
(* point when two feasible points have the same objective value            *)
(* (tie-breaking is the solver's own business).  Coefficients are exact    *)
(* rationals <<numerator, denominator>>: the Python floats 1/60 and 1/50   *)
(* differ from the rationals by less than the solver's feasibility         *)
(* tolerance.                                                              *)
(***************************************************************************)
EXTENDS Integers, Sequences, FiniteSets

VARIABLES
    pc,      \* the statement main() is about to execute
    fn,      \* the function of main() that is running
    prob,    \* the local `prob` (an LpProblem)
    x,       \* the local `x` (an LpVariable)
    y,       \* the local `y` (an LpVariable)
    cur,     \* solver: the integer point being examined
    best,    \* solver: the best feasible point so far, <<>> when none
    nOpt,    \* solver: how many examined feasible points attain best's objective
    k,       \* index of the loop `for v in prob.variables()`
    files,   \* names of the files written
    out      \* the lines printed

vars == <<pc, fn, prob, x, y, cur, best, nOpt, k, files, out>>

Locals == {"x", "y"}

----------------------------------------------------------------------------
(* PuLP objects as the source builds them *)

LpMaximize == "LpMaximize"
LpInteger == "Integer"

\* LpStatus[...] : the status strings the source prints
LpStatusNotSolved == "Not Solved"
LpStatusOptimal == "Optimal"
LpStatusInfeasible == "Infeasible"

\* pulp.LpVariable(name=, lowBound=, upBound=, cat=); varValue is unset
LpVariable(name, lowBound, upBound, cat) ==
    [name |-> name, lowBound |-> lowBound, upBound |-> upBound, cat |-> cat,
     varValue |-> <<>>]

\* pulp.LpProblem(name=, sense=): no objective, no constraints, not solved
LpProblem(name, sense) ==
    [name |-> name, sense |-> sense, objective |-> <<>>, constraints |-> <<>>,
     status |-> LpStatusNotSolved]

\* a local that is not bound yet
Unbound == LpVariable("", 0, 0, "")
NoProblem == LpProblem("", "")

\* rational arithmetic on <<numerator, denominator>>
RAdd(a, b) == <<a[1] * b[2] + b[1] * a[2], a[2] * b[2]>>

\* c * v : the expression with the single term c for the local v
Mul(c, v) == [w \in Locals |-> IF w = v THEN c ELSE <<0, 1>>]

\* e1 + e2 : the coefficients of each variable are added
Add(e1, e2) == [w \in Locals |-> RAdd(e1[w], e2[w])]

\* e <= rhs
LessEq(e, rhs, name) == [e |-> e, sense |-> "<=", rhs |-> rhs, name |-> name]

\* value of the expression e at the point p = <<px, py>>, as numerator over Den(e)
Num(e, p) == e["x"][1] * e["y"][2] * p[1] + e["y"][1] * e["x"][2] * p[2]
Den(e) == e["x"][2] * e["y"][2]

----------------------------------------------------------------------------
(* factory_product_problem *)

factory_name == "Factory Products Profit"

factory_x == LpVariable("screws_tons_per_day", 0, 400, LpInteger)

factory_y_200 == LpVariable("nails_tons_per_day", 0, 200, LpInteger)

factory_y == LpVariable("nails_tons_per_day", 0, 300, LpInteger)

factory_objective_24 == Add(Mul(<<20, 1>>, "x"), Mul(<<24, 1>>, "y"))

factory_objective == Add(Mul(<<20, 1>>, "x"), Mul(<<30, 1>>, "y"))

factory_constraint ==
    LessEq(Add(Mul(<<1, 60>>, "x"), Mul(<<1, 50>>, "y")), 8,
           "Working Hour constraint")

factory_lp == "MaximisedProfit.lp"

(* advertising_campaign_problem *)

advertising_name == "Advertisement Campaign"

advertising_x == LpVariable("run_no_of_print_media", 0, 40, LpInteger)

advertising_y == LpVariable("run_no_of_tv_media", 0, 15, LpInteger)

advertising_objective ==
    Add(Mul(<<1000000, 1>>, "x"), Mul(<<2000000, 1>>, "y"))

advertising_constraint_5000 ==
    LessEq(Add(Mul(<<20000, 1>>, "x"), Mul(<<5000, 1>>, "y")), 1000000,
           "Cost constraint")

advertising_constraint ==
    LessEq(Add(Mul(<<20000, 1>>, "x"), Mul(<<50000, 1>>, "y")), 1000000,
           "Cost constraint")

advertising_lp == "AdvertisementCampaign.lp"

factory_product_problem == "factory_product_problem"
advertising_campaign_problem == "advertising_campaign_problem"

\* the statements of the function f
Body(f) ==
    IF f = factory_product_problem
    THEN [name |-> factory_name, x |-> factory_x, y |-> factory_y,
          objective |-> factory_objective, constraint |-> factory_constraint,
          lp |-> factory_lp,
          objfmt |-> "Ton for each product per day to maximise profit = {ob}"]
    ELSE [name |-> advertising_name, x |-> advertising_x, y |-> advertising_y,
          objective |-> advertising_objective,
          constraint |-> advertising_constraint, lp |-> advertising_lp,
          objfmt |-> "Maximum people reach by using both media = {ob}"]

----------------------------------------------------------------------------
(* prob.variables(): the variables the objective or a constraint mentions,
   sorted by name *)

\* the variable names of the program in alphabetical order
SortedNames ==
    <<"nails_tons_per_day", "run_no_of_print_media", "run_no_of_tv_media",
      "screws_tons_per_day">>

Rank(name) == CHOOSE i \in 1..Len(SortedNames) : SortedNames[i] = name

Local(v) == IF v = "x" THEN x ELSE y

Mentions(e, v) == e[v][1] # 0

Mentioned ==
    {v \in Locals :
        \/ \E i \in 1..Len(prob.objective) : Mentions(prob.objective[i], v)
        \/ \E i \in 1..Len(prob.constraints) : Mentions(prob.constraints[i].e, v)}

variables ==
    LET S == Mentioned
    IN  IF S = Locals
        THEN IF Rank(x.name) < Rank(y.name) THEN <<"x", "y">> ELSE <<"y", "x">>
        ELSE IF S = {"x"} THEN <<"x">> ELSE IF S = {"y"} THEN <<"y">> ELSE <<>>

----------------------------------------------------------------------------
(* the solver's view of prob *)

\* p satisfies every constraint of prob
Feasible(p) ==
    \A i \in 1..Len(prob.constraints) :
        LET c == prob.constraints[i]
        IN  Num(c.e, p) <= c.rhs * Den(c.e)

\* the objective at p (numerator; every point shares the denominator)
Obj(p) == Num(prob.objective[1], p)

\* p is strictly better than q in the sense of prob
Better(p, q) ==
    IF prob.sense = LpMaximize THEN Obj(p) > Obj(q) ELSE Obj(p) < Obj(q)

\* the last point of the box
Last == <<x.upBound, y.upBound>>

\* the point examined after p
After(p) == IF p[2] < y.upBound THEN <<p[1], p[2] + 1>> ELSE <<p[1] + 1, y.lowBound>>

\* value(prob.objective): the objective at the variables' values
value == <<Num(prob.objective[1], <<x.varValue[1], y.varValue[1]>>),
           Den(prob.objective[1])>>

----------------------------------------------------------------------------
Init ==
    /\ pc = "create"
    /\ fn = factory_product_problem
    /\ prob = NoProblem
    /\ x = Unbound
    /\ y = Unbound
    /\ cur = <<0, 0>>
    /\ best = <<>>
    /\ nOpt = 0
    /\ k = 0
    /\ files = {}
    /\ out = <<>>

\* prob = pulp.LpProblem(name=..., sense=LpMaximize)
CreateProblem ==
    /\ pc = "create"
    /\ prob' = LpProblem(Body(fn).name, LpMaximize)
    /\ x' = Unbound
    /\ y' = Unbound
    /\ pc' = "var_x"
    /\ UNCHANGED <<fn, cur, best, nOpt, k, files, out>>

\* x = pulp.LpVariable(...)
CreateX ==
    /\ pc = "var_x"
    /\ x' = Body(fn).x
    /\ pc' = "var_y"
    /\ UNCHANGED <<fn, prob, y, cur, best, nOpt, k, files, out>>

\* y = pulp.LpVariable(...)
CreateY ==
    /\ pc = "var_y"
    /\ y' = Body(fn).y
    /\ pc' = "objective"
    /\ UNCHANGED <<fn, prob, x, cur, best, nOpt, k, files, out>>

\* prob += <expression>, "<name>"
SetObjective ==
    /\ pc = "objective"
    /\ prob' = [prob EXCEPT !.objective = <<Body(fn).objective>>]
    /\ pc' = "constraint"
    /\ UNCHANGED <<fn, x, y, cur, best, nOpt, k, files, out>>

\* prob += <expression> <= <rhs>, "<name>"
AddConstraint ==
    /\ pc = "constraint"
    /\ prob' = [prob EXCEPT !.constraints = Append(@, Body(fn).constraint)]
    /\ pc' = "writeLP"
    /\ UNCHANGED <<fn, x, y, cur, best, nOpt, k, files, out>>

\* prob.writeLP('<file>')
WriteLP ==
    /\ pc = "writeLP"
    /\ files' = files \cup {Body(fn).lp}
    /\ pc' = "solve"
    /\ UNCHANGED <<fn, prob, x, y, cur, best, nOpt, k, out>>

\* prob.solve(): the solver starts at the first point of the box
SolveStart ==
    /\ pc = "solve"
    /\ cur' = <<x.lowBound, y.lowBound>>
    /\ best' = <<>>
    /\ nOpt' = 0
    /\ pc' = IF x.lowBound <= x.upBound /\ y.lowBound <= y.upBound
             THEN "solving" ELSE "finish"
    /\ UNCHANGED <<fn, prob, x, y, k, files, out>>

Advance ==
    IF cur = Last
    THEN pc' = "finish" /\ cur' = cur
    ELSE pc' = "solving" /\ cur' = After(cur)

\* the point violates a constraint
SolveInfeasiblePoint ==
    /\ pc = "solving"
    /\ ~Feasible(cur)
    /\ Advance
    /\ UNCHANGED <<fn, prob, x, y, best, nOpt, k, files, out>>

\* the point is feasible and better than the best so far
SolveImprove ==
    /\ pc = "solving"
    /\ Feasible(cur)
    /\ IF best = <<>> THEN TRUE ELSE Better(cur, best)
    /\ best' = cur
    /\ nOpt' = 1
    /\ Advance
    /\ UNCHANGED <<fn, prob, x, y, k, files, out>>

\* the point is feasible and as good as the best so far: either may be kept
SolveTie ==
    /\ pc = "solving"
    /\ Feasible(cur)
    /\ best # <<>>
    /\ Obj(cur) = Obj(best)
    /\ best' \in {best, cur}
    /\ nOpt' = nOpt + 1
    /\ Advance
    /\ UNCHANGED <<fn, prob, x, y, k, files, out>>

\* the point is feasible and worse than the best so far
SolveWorse ==
    /\ pc = "solving"
    /\ Feasible(cur)
    /\ best # <<>>
    /\ Better(best, cur)
    /\ Advance
    /\ UNCHANGED <<fn, prob, x, y, best, nOpt, k, files, out>>

\* prob.solve() returns: the status is set, and the values when there are any
SolveFinish ==
    /\ pc = "finish"
    /\ IF best = <<>>
       THEN /\ prob' = [prob EXCEPT !.status = LpStatusInfeasible]
            /\ UNCHANGED <<x, y>>
       ELSE /\ prob' = [prob EXCEPT !.status = LpStatusOptimal]
            /\ x' = [x EXCEPT !.varValue = <<best[1]>>]
            /\ y' = [y EXCEPT !.varValue = <<best[2]>>]
    /\ pc' = "print_status"
    /\ UNCHANGED <<fn, cur, best, nOpt, k, files, out>>

\* print(); print("Problem Name >> ..."); print("Status >> ...")
PrintStatus ==
    /\ pc = "print_status"
    /\ out' = out \o <<[fmt |-> "", arg |-> <<>>],
                       [fmt |-> "Problem Name >> {pn}", arg |-> <<prob.name>>],
                       [fmt |-> "Status >> {lp}", arg |-> <<prob.status>>]>>
    /\ k' = 1
    /\ pc' = "print_vars"
    /\ UNCHANGED <<fn, prob, x, y, cur, best, nOpt, files>>

\* for v in prob.variables(): print("{vn} = {vv}")
PrintVariable ==
    /\ pc = "print_vars"
    /\ k <= Len(variables)
    /\ out' = Append(out, [fmt |-> Local(variables[k]).name,
                           arg |-> Local(variables[k]).varValue])
    /\ k' = k + 1
    /\ UNCHANGED <<pc, fn, prob, x, y, cur, best, nOpt, files>>

\* the loop is over
PrintVariablesEnd ==
    /\ pc = "print_vars"
    /\ k > Len(variables)
    /\ pc' = "print_objective"
    /\ UNCHANGED <<fn, prob, x, y, cur, best, nOpt, k, files, out>>

\* print("... = {ob}".format(ob=value(prob.objective)))
PrintObjective ==
    /\ pc = "print_objective"
    /\ out' = Append(out, [fmt |-> Body(fn).objfmt, arg |-> value])
    /\ pc' = "return"
    /\ UNCHANGED <<fn, prob, x, y, cur, best, nOpt, k, files>>

\* main(): factory_product_problem() then advertising_campaign_problem()
Return ==
    /\ pc = "return"
    /\ IF fn = factory_product_problem
       THEN fn' = advertising_campaign_problem /\ pc' = "create"
       ELSE fn' = fn /\ pc' = "done"
    /\ UNCHANGED <<prob, x, y, cur, best, nOpt, k, files, out>>

Next ==
    \/ CreateProblem
    \/ CreateX
    \/ CreateY
    \/ SetObjective
    \/ AddConstraint
    \/ WriteLP
    \/ SolveStart
    \/ SolveInfeasiblePoint
    \/ SolveImprove
    \/ SolveTie
    \/ SolveWorse
    \/ SolveFinish
    \/ PrintStatus
    \/ PrintVariable
    \/ PrintVariablesEnd
    \/ PrintObjective
    \/ Return

Spec == Init /\ [][Next]_vars

----------------------------------------------------------------------------
(* Properties *)

\* prob.solve() has returned and the function has not
Solved == pc \in {"print_status", "print_vars", "print_objective", "return"}

\* the point p lies within the bounds of x and y
InBox(p) ==
    /\ x.lowBound <= p[1] /\ p[1] <= x.upBound
    /\ y.lowBound <= p[2] /\ p[2] <= y.upBound

\* C1: building the factory-product model and solving it yields status
\* Optimal with objective value 11400 at x = 120, y = 300: that point is
\* feasible, no feasible integer point the solver examines has a larger
\* objective, and the lines printed are those the source documents.
FactoryOptimum ==
    /\ (fn = factory_product_problem /\ pc = "solving" /\ Feasible(cur))
          => Obj(cur) <= 11400 * Den(prob.objective[1])
    /\ (fn = factory_product_problem /\ Solved)
          => /\ prob.status = LpStatusOptimal
             /\ x.varValue = <<120>>
             /\ y.varValue = <<300>>
             /\ value = <<11400, 1>>
             /\ InBox(<<120, 300>>)
             /\ Feasible(<<120, 300>>)
    /\ (fn = factory_product_problem /\ pc = "return")
          => /\ out[3] = [fmt |-> "Status >> {lp}", arg |-> <<"Optimal">>]
             /\ out[4] = [fmt |-> "nails_tons_per_day", arg |-> <<300>>]
             /\ out[5] = [fmt |-> "screws_tons_per_day", arg |-> <<120>>]
             /\ out[6].arg = <<11400, 1>>

\* the factory model has been solved and its report printed
FactoryReported ==
    /\ fn = factory_product_problem
    /\ pc = "return"
    /\ Len(out) = 6
    /\ prob.name = factory_name
    /\ prob.status = LpStatusOptimal
    /\ value = <<11400, 1>>

\* C2: building the advertising-campaign model and solving it yields status
\* Optimal with objective value 48,000,000 at x = 40, y = 4: that point is
\* feasible, no feasible integer point the solver examines has a larger
\* objective, and the lines printed are those the source documents.
AdvertisingOptimum ==
    /\ (fn = advertising_campaign_problem /\ pc = "solving" /\ Feasible(cur))
          => Obj(cur) <= 48000000 * Den(prob.objective[1])
    /\ (fn = advertising_campaign_problem /\ Solved)
          => /\ prob.status = LpStatusOptimal
             /\ x.varValue = <<40>>
             /\ y.varValue = <<4>>
             /\ value = <<48000000, 1>>
             /\ InBox(<<40, 4>>)
             /\ Feasible(<<40, 4>>)
    /\ (fn = advertising_campaign_problem /\ pc = "return")
          => /\ out[9] = [fmt |-> "Status >> {lp}", arg |-> <<"Optimal">>]
             /\ out[10] = [fmt |-> "run_no_of_print_media", arg |-> <<40>>]
             /\ out[11] = [fmt |-> "run_no_of_tv_media", arg |-> <<4>>]
             /\ out[12].arg = <<48000000, 1>>

\* the advertising model has been solved and its report printed
AdvertisingReported ==
    /\ fn = advertising_campaign_problem
    /\ pc = "return"
    /\ Len(out) = 12
    /\ prob.name = advertising_name
    /\ prob.status = LpStatusOptimal
    /\ value = <<48000000, 1>>

\* C10: in each of the two models the maximizing integer point is unique:
\* the only feasible point with objective 11400 in the factory model is
\* (120, 300), the only one with objective 48,000,000 in the advertising
\* model is (40, 4), so whichever point the solver keeps on a tie, it
\* finishes with exactly one optimal point, the documented one.
UniqueOptimum ==
    /\ (pc = "solving" /\ Feasible(cur) /\ fn = factory_product_problem
           /\ Obj(cur) = 11400 * Den(prob.objective[1]))
          => cur = <<120, 300>>
    /\ (pc = "solving" /\ Feasible(cur) /\ fn = advertising_campaign_problem
           /\ Obj(cur) = 48000000 * Den(prob.objective[1]))
          => cur = <<40, 4>>
    /\ pc = "finish"
          => /\ nOpt = 1
             /\ best = IF fn = factory_product_problem
                       THEN <<120, 300>> ELSE <<40, 4>>

\* the solver has examined every point of the advertising model, in which
\* it met ties on the way, and is left with a single optimal point
SolverLeftWithOne ==
    /\ pc = "finish"
    /\ fn = advertising_campaign_problem
    /\ cur = Last
    /\ nOpt = 1
    /\ files = {factory_lp, advertising_lp}

====
